---- MODULE Spec2Model ----
(***************************************************************************)
(* Model of scripts/vastai_launcher.py: the offer selection pipeline       *)
(* (filter_offers, score_offer, select_best_offer), the environment map    *)
(* builder (build_env_vars) and the run of main()/launch().                *)
(*                                                                         *)
(* Number representation.  The program computes with Python floats; the    *)
(* model computes with exact integers in fixed units:                      *)
(*   - money (dph_total, max_price_per_hour) in tenths of a dollar,        *)
(*   - reliability (reliability2, min_reliability) in hundredths,          *)
(*   - disk space in GB and bandwidth in Mbps as they are.                 *)
(* A score s of the program is represented by the integer                  *)
(* s * ScoreDen(cfg), where ScoreDen(cfg) = 100 * cfg.max_price_per_hour   *)
(* is positive whenever score_offer returns, so that comparing two scores  *)
(* of one configuration is comparing their integers.                       *)
(***************************************************************************)
EXTENDS Integers, Sequences, FiniteSets, TLC

VARIABLES
    pc,            \* position of the run / which function has been applied
    args,          \* parsed command line (parse_args), main()
    cfg,           \* the Config handed to the functions
    offers,        \* the catalog: the list search_offers returned / the input list
    valid_offers,  \* filter_offers' result
    scores,        \* score_offer's locals, one record per offer it was applied to
    best,          \* select_best_offer's outcome
    instance_id,   \* build_env_vars' second argument
    env,           \* build_env_vars' result
    n_search,      \* number of catalog fetches (GET /bundles/) sent
    n_create,      \* number of instance-creation requests (PUT /asks/<id>/) sent
    net,           \* outcome of the network calls so far
    exit_code      \* the process' exit status, once it has exited

vars == <<pc, args, cfg, offers, valid_offers, scores, best, instance_id, env,
          n_search, n_create, net, exit_code>>

\* Longest catalog the model enumerates.
MaxOffers == 2

Max(a, b) == IF a >= b THEN a ELSE b

(***************************************************************************)
(* Offers: dicts whose keys may be absent.  An offer is a record of the    *)
(* fields the program reads plus `has`, the set of keys the dict holds; an *)
(* absent key carries a fixed placeholder that is never read.              *)
(***************************************************************************)
OfferKeys == {"id", "dph_total", "reliability2", "disk_space", "gpu_name",
              "inet_down", "inet_up", "num_gpus", "rentable"}

Offer(id, price, rel, disk, gpu, down, up, n, rentable) ==
    [id |-> id, dph_total |-> price, reliability2 |-> rel, disk_space |-> disk,
     gpu_name |-> gpu, inet_down |-> down, inet_up |-> up, num_gpus |-> n,
     rentable |-> rentable, has |-> OfferKeys]

Placeholder(k) ==
    IF k = "gpu_name" THEN "" ELSE IF k = "rentable" THEN FALSE ELSE 0

\* The dict `o` with key `k` deleted.
Without(o, k) == [o EXCEPT ![k] = Placeholder(k), !.has = @ \ {k}]

\* dict.get(key, default)
get(o, k, default) == IF k \in o.has THEN o[k] ELSE default

\* x in tuple
In(x, tuple) == \E i \in DOMAIN tuple : tuple[i] = x

(***************************************************************************)
(* filter_offers                                                           *)
(***************************************************************************)
\* The mutant of filter_cond: the price limit made exclusive.
filter_cond_exclusive(offer, c) ==
    LET price      == get(offer, "dph_total", 999 * 10)
        disk_space == get(offer, "disk_space", 0)
        gpu_name   == get(offer, "gpu_name", "")
        inet_down  == get(offer, "inet_down", 0)
        inet_up    == get(offer, "inet_up", 0)
        num_gpus   == get(offer, "num_gpus", 1)
    IN  /\ price < c.max_price_per_hour
        /\ num_gpus = c.num_gpus
        /\ disk_space >= c.min_disk_space
        /\ In(gpu_name, c.preferred_gpus)
        /\ inet_down >= c.min_inet_down
        /\ inet_up >= c.min_inet_up
        /\ get(offer, "rentable", FALSE)

\* The loop body's reads and its condition.  reliability2 is read into a
\* local too, and the local is never used.
filter_cond(offer, c) ==
    LET price      == get(offer, "dph_total", 999 * 10)
        disk_space == get(offer, "disk_space", 0)
        gpu_name   == get(offer, "gpu_name", "")
        inet_down  == get(offer, "inet_down", 0)
        inet_up    == get(offer, "inet_up", 0)
        num_gpus   == get(offer, "num_gpus", 1)
    IN  /\ price <= c.max_price_per_hour
        /\ num_gpus = c.num_gpus
        /\ disk_space >= c.min_disk_space
        /\ In(gpu_name, c.preferred_gpus)
        /\ inet_down >= c.min_inet_down
        /\ inet_up >= c.min_inet_up
        /\ get(offer, "rentable", FALSE)

RECURSIVE filter_loop(_, _, _, _)
filter_loop(os, c, i, filtered) ==
    IF i > Len(os) THEN filtered
    ELSE filter_loop(os, c, i + 1,
                     IF filter_cond(os[i], c) THEN Append(filtered, os[i])
                                              ELSE filtered)

filter_offers(os, c) == filter_loop(os, c, 1, <<>>)

(***************************************************************************)
(* score_offer                                                             *)
(***************************************************************************)
\* The integer that represents the score 1.
ScoreDen(c) == 100 * c.max_price_per_hour

\* price / cfg.max_price_per_hour raises ZeroDivisionError.
score_raises(c) == c.max_price_per_hour = 0

\* The mutant of price_score: the clamp max(0, .) dropped.
price_score_unclamped(offer, c) ==
    LET price == get(offer, "dph_total", 999 * 10)
    IN  30 * 100 * (c.max_price_per_hour - price)

\* price_score = max(0, 30 * (1 - price / max_price)), times ScoreDen.
price_score(offer, c) ==
    LET price == get(offer, "dph_total", 999 * 10)
    IN  Max(0, 30 * 100 * (c.max_price_per_hour - price))

\* score = price_score + reliability * 15, times ScoreDen.
score_offer(offer, c) ==
    LET reliability == get(offer, "reliability2", 0)
    IN  price_score(offer, c) + reliability * 15 * c.max_price_per_hour

(***************************************************************************)
(* select_best_offer                                                       *)
(***************************************************************************)
NoOffer == [Offer(0, 0, 0, 0, "", 0, 0, 0, FALSE) EXCEPT !.has = {}]
None == [kind |-> "None", offer |-> NoOffer]
ZeroDivisionError == [kind |-> "ZeroDivisionError", offer |-> NoOffer]
Returned(o) == [kind |-> "offer", offer |-> o]

\* scored = [(offer, score_offer(offer, cfg)) for offer in valid_offers]
scored_list(valid, c) == [i \in DOMAIN valid |-> <<valid[i], score_offer(valid[i], c)>>]

\* The mutant of insert_desc: an element goes before the elements equal to it.
insert_desc_unstable(sorted, x) ==
    LET smaller == {j \in DOMAIN sorted : sorted[j][2] <= x[2]}
        at     == IF smaller = {} THEN Len(sorted) + 1
                  ELSE CHOOSE j \in smaller : \A k \in smaller : j <= k
    IN  SubSeq(sorted, 1, at - 1) \o <<x>> \o SubSeq(sorted, at, Len(sorted))

\* One step of a stable descending sort: x goes after every element whose
\* key is greater than or equal to its own.
insert_desc(sorted, x) ==
    LET smaller == {j \in DOMAIN sorted : sorted[j][2] < x[2]}
        at     == IF smaller = {} THEN Len(sorted) + 1
                  ELSE CHOOSE j \in smaller : \A k \in smaller : j <= k
    IN  SubSeq(sorted, 1, at - 1) \o <<x>> \o SubSeq(sorted, at, Len(sorted))

RECURSIVE sort_loop(_, _, _)
sort_loop(s, i, sorted) ==
    IF i > Len(s) THEN sorted ELSE sort_loop(s, i + 1, insert_desc(sorted, s[i]))

\* list.sort(key=lambda x: x[1], reverse=True): stable, descending.
sort_desc(s) == sort_loop(s, 1, <<>>)

select_best_offer(os, c) ==
    LET valid == filter_offers(os, c)
    IN  IF valid = <<>> THEN None
        ELSE IF score_raises(c) THEN ZeroDivisionError
        ELSE Returned(sort_desc(scored_list(valid, c))[1][1])

(***************************************************************************)
(* build_env_vars                                                          *)
(***************************************************************************)
EnvNames == {"WANDB_API_KEY", "AWS_ACCESS_KEY_ID", "AWS_SECRET_ACCESS_KEY",
             "AWS_DEFAULT_REGION", "S3_DATA_PATH", "VAST_API_KEY",
             "CONTAINER_ID", "CONFIG_FILE"}

\* cfg.env_vars.get(key, default): env_vars is a dict, a function on the keys it holds.
env_get(d, k, default) == IF k \in DOMAIN d THEN d[k] ELSE default

\* The dict literal `env` of build_env_vars.
env_dict(c, iid) ==
    [k \in EnvNames |->
        CASE k = "WANDB_API_KEY"         -> env_get(c.env_vars, "wandb_key", "")
          [] k = "AWS_ACCESS_KEY_ID"     -> env_get(c.env_vars, "aws_key", "")
          [] k = "AWS_SECRET_ACCESS_KEY" -> env_get(c.env_vars, "aws_secret", "")
          [] k = "AWS_DEFAULT_REGION"    -> env_get(c.env_vars, "aws_region", "ap-northeast-2")
          [] k = "S3_DATA_PATH"          -> env_get(c.env_vars, "s3_path", "")
          [] k = "VAST_API_KEY"          -> c.api_key
          [] k = "CONTAINER_ID"          -> iid
          [] k = "CONFIG_FILE"           -> c.config_file]

\* The mutant of build_env_vars: the comprehension's `if v` dropped.
build_env_vars_keep_all(c, iid) == env_dict(c, iid)

\* {k: v for k, v in env.items() if v}: a string is true iff it is not empty.
build_env_vars(c, iid) ==
    LET e == env_dict(c, iid)
    IN  [k \in {n \in EnvNames : e[n] # ""} |-> e[k]]

(***************************************************************************)
(* Inputs                                                                  *)
(***************************************************************************)
GPU_4090 == "RTX 4090"

\* Config()'s defaults, with main()'s values for the keys and the file.
DefaultConfig ==
    [api_key |-> "vast-key", max_price_per_hour |-> 20, min_reliability |-> 90,
     min_disk_space |-> 50, min_inet_down |-> 100, min_inet_up |-> 100,
     num_gpus |-> 1, preferred_gpus |-> <<GPU_4090>>,
     env_vars |-> [k \in {"wandb_key"} |-> "wandb-key"],
     config_file |-> "configs/config.yaml"]

\* The offers A, B and C of the three-offer catalog, ceiling 2.0.
OfferA == Offer(1, 10, 95, 60, GPU_4090, 150, 150, 1, TRUE)
OfferB == Offer(2, 18, 99, 60, GPU_4090, 150, 150, 1, TRUE)
OfferC == Offer(3, 5, 80, 60, "A100", 150, 150, 1, TRUE)

\* Offers at and around each limit of DefaultConfig.
\* OfferD scores 29.25 as OfferA does (30*(1-0.45) + 0.85*15) and is below
\* the reliability threshold 0.9.
OfferD == Offer(4, 9, 85, 60, GPU_4090, 150, 150, 1, TRUE)
OfferAtLimits == Offer(5, 20, 95, 50, GPU_4090, 100, 100, 1, TRUE)
OfferOverPrice == Offer(6, 21, 95, 60, GPU_4090, 150, 150, 1, TRUE)
OfferFree == Offer(7, 0, 95, 60, GPU_4090, 150, 150, 1, TRUE)
OfferSmallDisk == Offer(8, 10, 95, 49, GPU_4090, 150, 150, 1, TRUE)
OfferSlowDown == Offer(9, 10, 95, 60, GPU_4090, 99, 150, 1, TRUE)
OfferSlowUp == Offer(10, 10, 95, 60, GPU_4090, 150, 99, 1, TRUE)
OfferTwoGpus == Offer(11, 10, 95, 60, GPU_4090, 150, 150, 2, TRUE)
OfferNotRentable == Offer(12, 10, 95, 60, GPU_4090, 150, 150, 1, FALSE)

\* The keys filter_offers' condition reads.
ConstraintKeys == {"dph_total", "num_gpus", "disk_space", "gpu_name",
                   "inet_down", "inet_up", "rentable"}

\* OfferA with one key absent.
Incomplete == {Without(OfferA, k) : k \in OfferKeys}

Universe ==
    {OfferA, OfferB, OfferC, OfferD, OfferAtLimits, OfferOverPrice, OfferFree,
     OfferSmallDisk, OfferSlowDown, OfferSlowUp, OfferTwoGpus, OfferNotRentable}
    \cup Incomplete

Catalogs == UNION {[1..n -> Universe] : n \in 0..MaxOffers}

\* Requirement sets: the default one and one change of it per constraint.
Configs ==
    {DefaultConfig,
     [DefaultConfig EXCEPT !.preferred_gpus = <<"H100">>],
     [DefaultConfig EXCEPT !.preferred_gpus = <<GPU_4090, "A100">>,
                           !.max_price_per_hour = 10],
     [DefaultConfig EXCEPT !.max_price_per_hour = 0],
     [DefaultConfig EXCEPT !.num_gpus = 2],
     [DefaultConfig EXCEPT !.min_disk_space = 0, !.min_inet_down = 0,
                           !.min_inet_up = 0, !.min_reliability = 0],
     [DefaultConfig EXCEPT !.max_price_per_hour = 999 * 10]}

\* parse_args' result: the options the model varies, the others at their defaults.
Args(api_key, wandb_key, max_price, gpus, gpu_type, dry_run, list) ==
    [api_key |-> api_key, wandb_key |-> wandb_key, aws_key |-> "", aws_secret |-> "",
     aws_region |-> "ap-northeast-2", s3_path |-> "", config |-> "configs/config.yaml",
     max_price |-> max_price, min_reliability |-> 90, gpus |-> gpus,
     gpu_type |-> gpu_type, dry_run |-> dry_run, list |-> list]

NoArgs == Args("", "", 0, 0, <<>>, FALSE, FALSE)
NoNet == [search |-> "none", create |-> "none", list |-> "none"]

(***************************************************************************)
(* SpecPipeline: filter_offers, score_offer and select_best_offer applied  *)
(* to every catalog and requirement set of the bounds.                     *)
(***************************************************************************)
InitPipeline ==
    /\ pc = "input"
    /\ args = NoArgs
    /\ cfg \in Configs
    /\ offers \in Catalogs
    /\ valid_offers = <<>>
    /\ scores = <<>>
    /\ best = None
    /\ instance_id = ""
    /\ env = <<>>
    /\ n_search = 0
    /\ n_create = 0
    /\ net = NoNet
    /\ exit_code = -1

\* valid_offers = filter_offers(offers, cfg)
ApplyFilter ==
    /\ pc = "input"
    /\ valid_offers' = filter_offers(offers, cfg)
    /\ pc' = "filtered"
    /\ UNCHANGED <<args, cfg, offers, scores, best, instance_id, env,
                   n_search, n_create, net, exit_code>>

\* score_offer(offer, cfg) for every offer of the list; the first call raises
\* when the division does.
ApplyScore ==
    /\ pc = "input"
    /\ offers # <<>>
    /\ IF score_raises(cfg)
       THEN /\ scores' = <<>>
            /\ pc' = "score_raised"
       ELSE /\ scores' = [i \in DOMAIN offers |->
                            [price_score |-> price_score(offers[i], cfg),
                             score |-> score_offer(offers[i], cfg)]]
            /\ pc' = "scored"
    /\ UNCHANGED <<args, cfg, offers, valid_offers, best, instance_id, env,
                   n_search, n_create, net, exit_code>>

\* best = select_best_offer(offers, cfg)
ApplySelect ==
    /\ pc = "input"
    /\ best' = select_best_offer(offers, cfg)
    /\ valid_offers' = filter_offers(offers, cfg)
    /\ pc' = "selected"
    /\ UNCHANGED <<args, cfg, offers, scores, instance_id, env,
                   n_search, n_create, net, exit_code>>

NextPipeline == ApplyFilter \/ ApplyScore \/ ApplySelect

SpecPipeline == InitPipeline /\ [][NextPipeline]_vars

(***************************************************************************)
(* SpecEnv: build_env_vars applied to every combination of empty, set and  *)
(* absent source values.                                                   *)
(***************************************************************************)
EnvVarKeys == {"wandb_key", "aws_key", "aws_secret", "aws_region", "s3_path"}
EnvVarDicts == UNION {[K -> {"", "x"}] : K \in SUBSET EnvVarKeys}

InitEnv ==
    /\ pc = "input"
    /\ args = NoArgs
    /\ \E k \in {"", "vast-key"}, f \in {"", "configs/config.yaml"}, d \in EnvVarDicts :
          cfg = [DefaultConfig EXCEPT !.api_key = k, !.config_file = f, !.env_vars = d]
    /\ offers = <<>>
    /\ valid_offers = <<>>
    /\ scores = <<>>
    /\ best = None
    /\ instance_id \in {"", "7"}
    /\ env = <<>>
    /\ n_search = 0
    /\ n_create = 0
    /\ net = NoNet
    /\ exit_code = -1

\* env = build_env_vars(cfg, instance_id)
ApplyBuildEnv ==
    /\ pc = "input"
    /\ env' = build_env_vars(cfg, instance_id)
    /\ pc' = "env_built"
    /\ UNCHANGED <<args, cfg, offers, valid_offers, scores, best, instance_id,
                   n_search, n_create, net, exit_code>>

NextEnv == ApplyBuildEnv

SpecEnv == InitEnv /\ [][NextEnv]_vars

(***************************************************************************)
(* Spec: one run of the process, main() and launch().  The network calls   *)
(* (search_offers, create_instance, get_instances) are sent by one action  *)
(* and answered by another; between two of them the code runs through.     *)
(* An exception nothing catches ends the process with exit status 1.       *)
(***************************************************************************)
\* cfg = Config(...) of main(): the limits main() does not pass keep their defaults.
main_config(a) ==
    [api_key |-> a.api_key, max_price_per_hour |-> a.max_price,
     min_reliability |-> a.min_reliability,
     min_disk_space |-> 50, min_inet_down |-> 100, min_inet_up |-> 100,
     num_gpus |-> a.gpus, preferred_gpus |-> a.gpu_type,
     env_vars |-> [k \in EnvVarKeys |->
                     CASE k = "wandb_key"  -> a.wandb_key
                       [] k = "aws_key"    -> a.aws_key
                       [] k = "aws_secret" -> a.aws_secret
                       [] k = "aws_region" -> a.aws_region
                       [] k = "s3_path"    -> a.s3_path],
     config_file |-> a.config]

\* main()'s check of the required keys.
main_missing(a) == a.api_key = "" \/ a.wandb_key = ""

\* The mutant of launch_creates: the dry_run return dropped.
launch_creates_in_dry_run(b, dry_run) == b.kind = "offer"

\* launch() goes on to create_instance: select_best_offer returned an offer
\* (`if not best: return None`) and dry_run is false (`if dry_run: return best`).
launch_creates(b, dry_run) == b.kind = "offer" /\ ~dry_run

\* `if result is None and not args.dry_run: sys.exit(1)`, else the process ends normally.
main_exit_code(result_is_none, dry_run) ==
    IF result_is_none /\ ~dry_run THEN 1 ELSE 0

Init ==
    /\ pc = "start"
    /\ \E k \in {"", "vast-key"}, w \in {"", "wandb-key"}, p \in {0, 20}, g \in {1, 2},
          t \in {<<GPU_4090>>, <<"H100">>}, dry \in BOOLEAN, l \in BOOLEAN :
          args = Args(k, w, p, g, t, dry, l)
    /\ cfg = DefaultConfig
    /\ offers = <<>>
    /\ valid_offers = <<>>
    /\ scores = <<>>
    /\ best = None
    /\ instance_id = ""
    /\ env = <<>>
    /\ n_search = 0
    /\ n_create = 0
    /\ net = NoNet
    /\ exit_code = -1

\* main() up to the first network call.
MainStart ==
    /\ pc = "start"
    /\ IF main_missing(args)
       THEN /\ pc' = "exited"
            /\ exit_code' = 1
            /\ UNCHANGED <<cfg, n_search, net>>
       ELSE /\ cfg' = main_config(args)
            /\ exit_code' = exit_code
            /\ IF args.list
               THEN /\ pc' = "listing"
                    /\ net' = [net EXCEPT !.list = "pending"]
                    /\ n_search' = n_search
               ELSE /\ pc' = "searching"
                    /\ net' = [net EXCEPT !.search = "pending"]
                    /\ n_search' = n_search + 1
    /\ UNCHANGED <<args, offers, valid_offers, scores, best, instance_id, env, n_create>>

\* list_my_instances: get_instances answers, the list is printed.
ListOk ==
    /\ pc = "listing"
    /\ net' = [net EXCEPT !.list = "ok"]
    /\ pc' = "exited"
    /\ exit_code' = 0
    /\ UNCHANGED <<args, cfg, offers, valid_offers, scores, best, instance_id, env,
                   n_search, n_create>>

\* list_my_instances: get_instances raises, nothing catches it.
ListFails ==
    /\ pc = "listing"
    /\ net' = [net EXCEPT !.list = "failed"]
    /\ pc' = "exited"
    /\ exit_code' = 1
    /\ UNCHANGED <<args, cfg, offers, valid_offers, scores, best, instance_id, env,
                   n_search, n_create>>

\* launch: search_offers raises; launch returns None.
SearchFails ==
    /\ pc = "searching"
    /\ net' = [net EXCEPT !.search = "failed"]
    /\ pc' = "exited"
    /\ exit_code' = main_exit_code(TRUE, args.dry_run)
    /\ UNCHANGED <<args, cfg, offers, valid_offers, scores, best, instance_id, env,
                   n_search, n_create>>

\* launch: search_offers returns a catalog; selection, the dry-run return,
\* build_env_vars and the sending of the creation request follow at once.
SearchOk ==
    /\ pc = "searching"
    /\ \E catalog \in Catalogs :
          LET b == select_best_offer(catalog, cfg)
          IN  /\ offers' = catalog
              /\ valid_offers' = filter_offers(catalog, cfg)
              /\ best' = b
              /\ net' = [net EXCEPT !.search = "ok",
                                    !.create = IF launch_creates(b, args.dry_run)
                                                  /\ "id" \in b.offer.has
                                               THEN "pending" ELSE @]
              /\ CASE b.kind = "ZeroDivisionError" ->
                        \* score_offer raises inside select_best_offer
                        /\ pc' = "exited"
                        /\ exit_code' = 1
                        /\ UNCHANGED <<instance_id, env, n_create>>
                   [] b.kind = "None" ->
                        /\ pc' = "exited"
                        /\ exit_code' = main_exit_code(TRUE, args.dry_run)
                        /\ UNCHANGED <<instance_id, env, n_create>>
                   [] b.kind = "offer" /\ ~launch_creates(b, args.dry_run) ->
                        \* dry run: launch returns best
                        /\ pc' = "exited"
                        /\ exit_code' = main_exit_code(FALSE, args.dry_run)
                        /\ UNCHANGED <<instance_id, env, n_create>>
                   [] launch_creates(b, args.dry_run) /\ "id" \notin b.offer.has ->
                        \* best["id"] raises KeyError
                        /\ pc' = "exited"
                        /\ exit_code' = 1
                        /\ UNCHANGED <<instance_id, env, n_create>>
                   [] launch_creates(b, args.dry_run) /\ "id" \in b.offer.has ->
                        /\ instance_id' = ToString(b.offer.id)
                        /\ env' = build_env_vars(cfg, ToString(b.offer.id))
                        /\ n_create' = n_create + 1
                        /\ pc' = "creating"
                        /\ exit_code' = exit_code
    /\ UNCHANGED <<args, cfg, scores, n_search>>

\* launch: create_instance returns the contract; launch returns it.
CreateOk ==
    /\ pc = "creating"
    /\ net' = [net EXCEPT !.create = "ok"]
    /\ pc' = "exited"
    /\ exit_code' = main_exit_code(FALSE, args.dry_run)
    /\ UNCHANGED <<args, cfg, offers, valid_offers, scores, best, instance_id, env,
                   n_search, n_create>>

\* launch: create_instance raises; launch returns None.
CreateFails ==
    /\ pc = "creating"
    /\ net' = [net EXCEPT !.create = "failed"]
    /\ pc' = "exited"
    /\ exit_code' = main_exit_code(TRUE, args.dry_run)
    /\ UNCHANGED <<args, cfg, offers, valid_offers, scores, best, instance_id, env,
                   n_search, n_create>>

Next ==
    \/ MainStart
    \/ ListOk
    \/ ListFails
    \/ SearchFails
    \/ SearchOk
    \/ CreateOk
    \/ CreateFails

Spec == Init /\ [][Next]_vars

(***************************************************************************)
(* Properties                                                              *)
(***************************************************************************)
\* The fields of an offer as the requirement set sees them.
PriceOf(o) == get(o, "dph_total", 999 * 10)
ReliabilityOf(o) == get(o, "reliability2", 0)

\* The seven requirements of the Constraint Filter, limits inclusive.
Eligible(o, c) ==
    /\ PriceOf(o) <= c.max_price_per_hour
    /\ get(o, "num_gpus", 1) = c.num_gpus
    /\ get(o, "disk_space", 0) >= c.min_disk_space
    /\ \E i \in DOMAIN c.preferred_gpus : c.preferred_gpus[i] = get(o, "gpu_name", "")
    /\ get(o, "inet_down", 0) >= c.min_inet_down
    /\ get(o, "inet_up", 0) >= c.min_inet_up
    /\ get(o, "rentable", FALSE) = TRUE

EligibleOffer(o) == Eligible(o, cfg)

\* The positions of the catalog whose offer is eligible, and those among
\* them whose score no eligible offer exceeds.
EligibleAt == {i \in DOMAIN offers : Eligible(offers[i], cfg)}
TopAt == {i \in EligibleAt :
            \A j \in EligibleAt : score_offer(offers[i], cfg) >= score_offer(offers[j], cfg)}

\* C1: filter_offers returns exactly the offers, in input order, that meet
\* all seven requirements (price <= ceiling, GPU count equal, disk, GPU
\* name, download and upload at least the minimum, rentable); an offer that
\* is not rentable is never returned.
C1_FilterExact ==
    pc = "filtered" =>
        /\ valid_offers = SelectSeq(offers, EligibleOffer)
        /\ \A i \in DOMAIN valid_offers : valid_offers[i].rentable

\* C1 witness: an offer priced exactly at the ceiling is returned while an
\* offer of the same list is dropped.
C1_Witness ==
    /\ pc = "filtered"
    /\ Len(offers) = 2
    /\ Len(valid_offers) = 1
    /\ "dph_total" \in valid_offers[1].has
    /\ valid_offers[1].dph_total = cfg.max_price_per_hour
    /\ \E i \in DOMAIN offers : "rentable" \in offers[i].has /\ ~offers[i].rentable

\* C2: no offer whose reliability is below cfg.min_reliability is returned by
\* filter_offers, returned by select_best_offer or submitted by launch.
C2_ReliabilityEnforced ==
    /\ \A i \in DOMAIN valid_offers : ReliabilityOf(valid_offers[i]) >= cfg.min_reliability
    /\ best.kind = "offer" => ReliabilityOf(best.offer) >= cfg.min_reliability

\* C3: filter_offers never returns an offer that lacks one of the keys its
\* condition reads.
C3_AbsentFieldExcluded ==
    pc = "filtered" =>
        \A i \in DOMAIN valid_offers : ConstraintKeys \subseteq valid_offers[i].has

\* C4: with a zero price ceiling no catalog fetch and no creation request is
\* ever sent, and the division inside score_offer is never reached.
C4_ZeroCeilingRejected ==
    args.max_price = 0 =>
        /\ n_search = 0
        /\ n_create = 0
        /\ best.kind # "ZeroDivisionError"

\* C5: the creation request is sent at most once in a run, and only after
\* the catalog fetch succeeded, select_best_offer returned an offer and
\* dry_run is false; a run that ended has sent none after a failure.
C5_SubmitAtMostOnce ==
    /\ n_create <= 1
    /\ n_create = 1 => net.search = "ok" /\ best.kind = "offer" /\ ~args.dry_run
    /\ net.create # "none" <=> n_create = 1
    /\ (net.search = "failed" \/ best.kind # "offer" \/ args.dry_run) => n_create = 0

\* C5 witness: a run whose one creation request failed and which has ended.
C5_Witness ==
    /\ pc = "exited"
    /\ n_create = 1
    /\ net.create = "failed"

\* C6: after a failed catalog fetch nothing is selected, nothing is
\* submitted and the process exits with a non-zero status, dry-run included.
C6_FetchFailureExitsNonZero ==
    (pc = "exited" /\ net.search = "failed") =>
        /\ best = None
        /\ n_create = 0
        /\ exit_code # 0

\* C7: when select_best_offer returns an offer, it is the offer at the
\* earliest position of the catalog among the eligible offers of highest score.
C7_EarliestWinsTie ==
    (pc = "selected" /\ best.kind = "offer") =>
        \E i \in TopAt :
            /\ \A j \in TopAt : i <= j
            /\ best.offer = offers[i]

\* C7 witness: two different offers share the highest score and the first is returned.
C7_Witness ==
    /\ pc = "selected"
    /\ best.kind = "offer"
    /\ Cardinality(TopAt) = 2
    /\ offers[1] # offers[2]
    /\ best.offer = offers[1]

\* C8: build_env_vars holds a key exactly when its source value is not the
\* empty string, with that value, for each of the eight keys.
C8_EnvOmitsEmpty ==
    pc = "env_built" =>
        /\ DOMAIN env \subseteq EnvNames
        /\ \A k \in EnvNames :
              LET v == env_dict(cfg, instance_id)[k]
              IN  IF v = "" THEN k \notin DOMAIN env
                            ELSE k \in DOMAIN env /\ env[k] = v
        /\ \A k \in DOMAIN env : env[k] # ""

\* C8 witness: a map built from sources of which some are empty and some are not.
C8_Witness ==
    /\ pc = "env_built"
    /\ cfg.api_key = ""
    /\ "VAST_API_KEY" \notin DOMAIN env
    /\ "wandb_key" \in DOMAIN cfg.env_vars
    /\ cfg.env_vars["wandb_key"] = "x"
    /\ "WANDB_API_KEY" \in DOMAIN env
    /\ "aws_region" \notin DOMAIN cfg.env_vars
    /\ "AWS_DEFAULT_REGION" \in DOMAIN env

\* C9: select_best_offer returns None exactly when no offer is eligible, and
\* otherwise returns an eligible offer whose score no eligible offer
\* exceeds; it never raises.
C9_SelectOutcome ==
    pc = "selected" =>
        /\ best = None <=> EligibleAt = {}
        /\ best # None =>
              /\ best.kind = "offer"
              /\ \E i \in TopAt : best.offer = offers[i]

\* C10: for a positive ceiling the score does not increase with the price
\* (reliability fixed) and does not decrease with the reliability (price
\* fixed); the price component is 30 at price 0, 0 at or above the ceiling,
\* and never negative.
C10_ScoreMonotone ==
    pc = "scored" =>
        /\ cfg.max_price_per_hour > 0
        /\ \A i, j \in DOMAIN offers :
              /\ (PriceOf(offers[i]) <= PriceOf(offers[j])
                    /\ ReliabilityOf(offers[i]) = ReliabilityOf(offers[j]))
                 => scores[i].score >= scores[j].score
              /\ (PriceOf(offers[i]) = PriceOf(offers[j])
                    /\ ReliabilityOf(offers[i]) <= ReliabilityOf(offers[j]))
                 => scores[i].score <= scores[j].score
        /\ \A i \in DOMAIN offers :
              /\ PriceOf(offers[i]) = 0 => scores[i].price_score = 30 * ScoreDen(cfg)
              /\ PriceOf(offers[i]) >= cfg.max_price_per_hour => scores[i].price_score = 0
              /\ scores[i].price_score >= 0

\* C10 witness: a free offer and an offer above the ceiling, equally
\* reliable, scored together: the first scores strictly more.
C10_Witness ==
    /\ pc = "scored"
    /\ Len(offers) = 2
    /\ PriceOf(offers[1]) = 0
    /\ PriceOf(offers[2]) > cfg.max_price_per_hour
    /\ ReliabilityOf(offers[1]) = ReliabilityOf(offers[2])
    /\ scores[1].score > scores[2].score

====
